---- MODULE Spec2Model ----
(***************************************************************************)
(* A model of the nipype interfaces of                                     *)
(*   rabies/analysis_pkg/diagnosis_pkg/interfaces.py                       *)
(* (PrepMasks, ScanDiagnosis, DatasetDiagnosis) and of                     *)
(*   rabies/preprocess_bold_pkg/utils.py                                   *)
(* (EstimateReferenceImage with antsMotionCorr, split_volumes,             *)
(* BIDSDataGraber).  One object is constructed with its inputs (Init),     *)
(* its _run_interface (or the function body) is stepped through in source  *)
(* order, and _list_outputs runs after a run that returned.  A raised      *)
(* exception ends the run in pc = "raised" with the exception's Python     *)
(* type in exc.                                                            *)
(***************************************************************************)
EXTENDS Integers, Sequences, FiniteSets, TLC

VARIABLES
    iface,    \* the interface class of the object under run
    inputs,   \* self.inputs, fixed at construction
    pc,       \* position of _run_interface / _list_outputs
    locals,   \* local variables of _run_interface that outlive a step
    fs,       \* paths (utils.py: files) created in the working directory by the run
    self,     \* attributes set on the object by setattr: {} unset, {v} set
    exc,      \* "none", or the type of the exception that ended the run
    calls,    \* calls made to the statistics / processing collaborators
    listed    \* what _list_outputs returned: {} not yet, {dict} returned

vars == <<iface, inputs, pc, locals, fs, self, exc, calls, listed>>

\* ------------------------------------------------------------------ bounds
MaxScans == 3      \* scan records in scan_data_list, after flattening
NumVoxels == 2     \* voxels inside the brain mask
MaxPriors == 2     \* prior network maps, and NPR maps, per scan
MaxSeeds == 1      \* seed prior maps
NumGrids == 2      \* distinct voxel grids an input image can lie on
MaxDicts == 2      \* mask dictionaries in mask_dict_list
MaxIdxLen == 2     \* elements of prior_bold_idx and prior_confound_idx together

Voxels == 1..NumVoxels
StdVals == {0, 1}      \* temporal-STD values: zero, non-zero
TdofVals == {1, 2}     \* tDOF values
CRVals == {1}          \* confound-regression STD values (never read by the control flow)

\* ------------------------------------------------------- python helpers
Cwd == "/cwd"

\* os.path.abspath(name) of a relative name
abspath(name) == Cwd \o "/" \o name

RECURSIVE flatten_list(_)
\* rabies.utils.flatten_list on a list of lists of records
flatten_list(l) == IF l = <<>> THEN <<>> ELSE Head(l) \o flatten_list(Tail(l))

Range(s) == {s[k] : k \in 1..Len(s)}

SeqsUpTo(S, n) == UNION { [1..k -> S] : k \in 0..n }

\* a joined input list: either one flat group or one group per item
Nest(items, nested) ==
    IF nested THEN [k \in 1..Len(items) |-> <<items[k]>>] ELSE <<items>>

\* ------------------------------------------------------------ PrepMasks
\* an image file: its path and its voxel grid (field of view, spacing);
\* the empty string '' is a path with no grid
img(path, fov, sp) == [path |-> path, geom |-> {<<fov, sp>>}]
NoFile == [path |-> "", geom |-> {}]
GridOf(f) == CHOOSE g \in f.geom : TRUE
Grids == 1..NumGrids

MaskDicts ==
    { [mask_file |-> img("mask.nii.gz", b, b),
       WM_mask_file |-> img("WM_mask.nii.gz", w, w),
       CSF_mask_file |-> img("CSF_mask.nii.gz", c, c),
       preprocess_anat_template |-> img("template.nii.gz", t, t)]
      : <<b, w, c, t>> \in Grids \X Grids \X Grids \X Grids }

\* the atlas directory: which of the two DSURQE hemisphere masks it holds
AtlasFiles == {"right", "left"}
EnvVars == {"XDG_DATA_HOME", "HOME"}

\* mask_dict_list holds one dictionary per scan, all alike, flat in one
\* group or one group per scan
PMInputs ==
    { [mask_dict_list |-> Nest([k \in 1..n |-> d], nested),
       prior_maps |-> img("melodic_IC.nii.gz", p, p),
       DSURQE_regions |-> r, environ |-> e, atlas |-> a]
      : <<d, n, nested, p, r, e, a>> \in
          MaskDicts \X (0..MaxDicts) \X BOOLEAN \X Grids \X BOOLEAN
          \X (SUBSET EnvVars) \X (SUBSET AtlasFiles) }

PMSelf0 == [mask_file_dict |-> {}]

PMInit ==
    /\ iface = "PrepMasks"
    /\ inputs \in PMInputs
    /\ pc = "start"
    /\ locals = [merged |-> <<>>]
    /\ fs = {}
    /\ self = PMSelf0
    /\ exc = "none"
    /\ calls = <<>>
    /\ listed = {}

\* lines 36-40: the first dictionary of the flattened list gives the masks
PM_ReadMasks ==
    /\ iface = "PrepMasks" /\ pc = "start"
    /\ LET merged == flatten_list(inputs.mask_dict_list) IN
       IF merged = <<>>
       THEN /\ pc' = "raised" /\ exc' = "IndexError"
            /\ locals' = locals
       ELSE /\ pc' = "template" /\ exc' = exc
            /\ locals' = [mask_dict |-> merged[1],
                          brain_mask_file |-> merged[1].mask_file,
                          WM_mask_file |-> merged[1].WM_mask_file,
                          CSF_mask_file |-> merged[1].CSF_mask_file]
    /\ UNCHANGED <<iface, inputs, fs, self, calls, listed>>

\* rabies.utils.resample_image_spacing: the image at another voxel spacing
resample_image_spacing(image, spacing) ==
    [path |-> image.path, geom |-> {<<GridOf(image)[1], spacing>>}]

template_file == abspath("display_template.nii.gz")

\* lines 43-46: the template at the brain mask's spacing, written out
PM_Template ==
    /\ iface = "PrepMasks" /\ pc = "template"
    /\ LET resampled == resample_image_spacing(locals.mask_dict.preprocess_anat_template,
                                               GridOf(locals.brain_mask_file)[2])
       IN locals' = [f \in DOMAIN locals \cup {"template_file"} |->
                       IF f = "template_file"
                       THEN [path |-> template_file, geom |-> resampled.geom]
                       ELSE locals[f]]
    /\ fs' = fs \cup {template_file}
    /\ pc' = "hemispheres"
    /\ UNCHANGED <<iface, inputs, self, exc, calls, listed>>

HemisphereRequested_Always(inp) == TRUE
\* line 48: if self.inputs.DSURQE_regions
HemisphereRequested(inp) == inp.DSURQE_regions

\* lines 49-52: the atlas directory, from XDG_DATA_HOME or else HOME
rabies_path(environ) ==
    IF "XDG_DATA_HOME" \in environ THEN [err |-> "none", path |-> "$XDG_DATA_HOME/rabies"]
    ELSE IF "HOME" \in environ THEN [err |-> "none", path |-> "$HOME/.local/share/rabies"]
    ELSE [err |-> "KeyError"]

\* diagnosis_functions.resample_mask: the atlas mask on the grid of the
\* brain mask; a missing atlas file is a ConfigurationError
resample_mask(side, atlas, brain_mask_file) ==
    IF side \notin atlas THEN [err |-> "ConfigurationError"]
    ELSE [err |-> "none",
          file |-> [path |-> abspath(side \o "_hem_mask_resampled.nii.gz"),
                    geom |-> brain_mask_file.geom]]

\* lines 48-59: right then left hemisphere mask, or two empty strings
HemisphereMasks(inp, brain_mask_file) ==
    IF HemisphereRequested(inp)
    THEN LET rp == rabies_path(inp.environ)
             right == resample_mask("right", inp.atlas, brain_mask_file)
             left == resample_mask("left", inp.atlas, brain_mask_file)
         IN IF rp.err # "none" THEN [err |-> rp.err]
            ELSE IF right.err # "none" THEN [err |-> right.err]
            ELSE IF left.err # "none" THEN [err |-> left.err]
            ELSE [err |-> "none", right |-> right.file, left |-> left.file]
    ELSE [err |-> "none", right |-> NoFile, left |-> NoFile]

With(rec, key, val) ==
    [f \in DOMAIN rec \cup {key} |-> IF f = key THEN val ELSE rec[f]]

PM_Hemispheres ==
    /\ iface = "PrepMasks" /\ pc = "hemispheres"
    /\ LET h == HemisphereMasks(inputs, locals.brain_mask_file) IN
       IF h.err # "none"
       THEN /\ pc' = "raised" /\ exc' = h.err
            /\ locals' = locals
       ELSE /\ pc' = "priors" /\ exc' = exc
            /\ locals' = With(With(locals, "right_hem_mask_file", h.right),
                              "left_hem_mask_file", h.left)
    /\ UNCHANGED <<iface, inputs, fs, self, calls, listed>>

\* rabies.analysis_pkg.analysis_functions.resample_IC_file: the prior maps
\* on the grid of the brain mask, map order kept
resample_IC_file(prior_maps, brain_mask_file) ==
    [path |-> abspath("resampled_IC.nii.gz"), geom |-> brain_mask_file.geom]

\* lines 61-62
PM_Priors ==
    /\ iface = "PrepMasks" /\ pc = "priors"
    /\ locals' = With(locals, "prior_maps",
                      resample_IC_file(inputs.prior_maps, locals.brain_mask_file))
    /\ pc' = "assemble"
    /\ UNCHANGED <<iface, inputs, fs, self, exc, calls, listed>>

edge_mask_file == abspath("edge_mask.nii.gz")

\* diagnosis_functions.compute_edge_mask: the shell of the brain mask, on
\* the brain mask's grid, written to out_file
compute_edge_mask(brain_mask_file, out_file) ==
    [path |-> out_file, geom |-> brain_mask_file.geom]

\* lines 66-67: WM and CSF masks enter the dictionary as they came in
mask_file_dict(L) ==
    [template_file |-> L.template_file, brain_mask |-> L.brain_mask_file,
     WM_mask |-> L.WM_mask_file, CSF_mask |-> L.CSF_mask_file,
     edge_mask |-> compute_edge_mask(L.brain_mask_file, edge_mask_file),
     right_hem_mask |-> L.right_hem_mask_file,
     left_hem_mask |-> L.left_hem_mask_file, prior_maps |-> L.prior_maps]

\* lines 64-70: the edge mask, the dictionary, setattr
PM_Assemble ==
    /\ iface = "PrepMasks" /\ pc = "assemble"
    /\ fs' = fs \cup {edge_mask_file}
    /\ self' = [mask_file_dict |-> {mask_file_dict(locals)}]
    /\ pc' = "returned"
    /\ UNCHANGED <<iface, inputs, locals, exc, calls, listed>>

\* lines 72-73
PM_list_outputs(obj) ==
    IF obj.mask_file_dict = {} THEN [err |-> "AttributeError"]
    ELSE [err |-> "none", mask_file_dict |-> CHOOSE d \in obj.mask_file_dict : TRUE]

PM_ListOutputs ==
    /\ iface = "PrepMasks" /\ pc = "returned"
    /\ listed' = {PM_list_outputs(self)}
    /\ pc' = "listed"
    /\ UNCHANGED <<iface, inputs, locals, fs, self, exc, calls>>

PMNext ==
    PM_ReadMasks \/ PM_Template \/ PM_Hemispheres \/ PM_Priors \/ PM_Assemble
    \/ PM_ListOutputs

SpecPM == PMInit /\ [][PMNext]_vars

\* ---------------------------------------------------- PrepMasks: claims
PMReturned == iface = "PrepMasks" /\ pc \in {"returned", "listed"}
MaskSet == CHOOSE d \in self.mask_file_dict : TRUE
GridKeys == {"brain_mask", "WM_mask", "CSF_mask", "edge_mask", "prior_maps",
             "right_hem_mask", "left_hem_mask"}

\* C8: in every MaskSet PrepMasks returns, the brain, WM, CSF and edge
\* masks, the hemisphere masks when present and the prior maps lie on one
\* voxel grid
C8_GridConsistent ==
    PMReturned =>
        \A k \in GridKeys : MaskSet[k] # NoFile => MaskSet[k].geom = MaskSet.brain_mask.geom

PMHasDict == flatten_list(inputs.mask_dict_list) # <<>>
PMPathResolved == inputs.environ # {}
PMPastHemispheres == pc \notin {"start", "template", "hemispheres"}

PyVal(t, n, chars) == [t |-> t, n |-> n, s |-> chars]
IdxElements ==
    { PyVal("int", -1, <<>>), PyVal("int", 0, <<>>), PyVal("int", 2, <<>>),
      PyVal("bool", 1, <<>>),
      PyVal("float", 27, <<>>), PyVal("float", -5, <<>>), PyVal("float", 10, <<>>),
      PyVal("nan", 0, <<>>), PyVal("inf", 0, <<>>), PyVal("NoneType", 0, <<>>),
      PyVal("str", 0, <<"2">>), PyVal("str", 0, <<" ", "1">>),
      PyVal("str", 0, <<"-", "1">>), PyVal("str", 0, <<"1", ".">>),
      PyVal("str", 0, <<>>), PyVal("str", 0, <<"1", "2">>),
      PyVal("str", 0, <<"1", " ", "2">>), PyVal("str", 0, <<"-">>) }

Digits == <<"0", "1", "2", "3", "4", "5", "6", "7", "8", "9">>
IsDigit(c) == \E d \in 1..10 : Digits[d] = c
DigitVal(c) == (CHOOSE d \in 1..10 : Digits[d] = c) - 1

RECURSIVE LStrip(_)
LStrip(chars) ==
    IF chars # <<>> /\ Head(chars) = " " THEN LStrip(Tail(chars)) ELSE chars
RECURSIVE RStrip(_)
RStrip(chars) ==
    IF chars # <<>> /\ chars[Len(chars)] = " "
    THEN RStrip(SubSeq(chars, 1, Len(chars) - 1)) ELSE chars
RECURSIVE DigitsVal(_, _)
DigitsVal(chars, acc) ==
    IF chars = <<>> THEN acc ELSE DigitsVal(Tail(chars), 10 * acc + DigitVal(Head(chars)))

\* int(str): surrounding whitespace dropped, an optional sign, then digits
ParseInt(chars) ==
    LET st == RStrip(LStrip(chars))
        neg == st # <<>> /\ Head(st) = "-"
        body == IF st # <<>> /\ Head(st) \in {"-", "+"} THEN Tail(st) ELSE st
    IN IF body = <<>> \/ \E k \in 1..Len(body) : ~IsDigit(body[k])
       THEN [err |-> "ValueError"]
       ELSE [err |-> "none",
             val |-> IF neg THEN -DigitsVal(body, 0) ELSE DigitsVal(body, 0)]

PyInt_Floor(e) ==
    CASE e.t \in {"int", "bool"} -> [err |-> "none", val |-> e.n]
      [] e.t = "float" -> [err |-> "none", val |-> e.n \div 10]
      [] e.t = "nan" -> [err |-> "ValueError"]
      [] e.t = "inf" -> [err |-> "OverflowError"]
      [] e.t = "NoneType" -> [err |-> "TypeError"]
      [] e.t = "str" -> ParseInt(e.s)
\* int(i) of lines 127-128: a float is truncated toward zero
PyInt(e) ==
    CASE e.t \in {"int", "bool"} -> [err |-> "none", val |-> e.n]
      [] e.t = "float" ->
           [err |-> "none",
            val |-> IF e.n >= 0 THEN e.n \div 10 ELSE -((-e.n) \div 10)]
      [] e.t = "nan" -> [err |-> "ValueError"]
      [] e.t = "inf" -> [err |-> "OverflowError"]
      [] e.t = "NoneType" -> [err |-> "TypeError"]
      [] e.t = "str" -> ParseInt(e.s)

RECURSIVE CoerceList(_, _)
\* [int(i) for i in l]: the first element int() refuses ends the list
CoerceList(l, acc) ==
    IF l = <<>> THEN [err |-> "none", vals |-> acc]
    ELSE LET r == PyInt(Head(l)) IN
         IF r.err # "none" THEN [err |-> r.err]
         ELSE CoerceList(Tail(l), Append(acc, r.val))

\* file_dict: the BOLD file, and whether BOLD, confound and mask files lie
\* on one voxel grid
SDInputs ==
    { [file_dict |-> [bold_file |-> [dir |-> "/data", stem |-> "sub-01_bold",
                                     ext |-> ".nii.gz"],
                      compatible |-> c],
       prior_bold_idx |-> b, prior_confound_idx |-> f]
      : <<b, f, c>> \in
          UNION { [1..lb -> IdxElements] \X [1..lf -> IdxElements] \X BOOLEAN
                  : <<lb, lf>> \in { y \in (0..MaxIdxLen) \X (0..MaxIdxLen)
                                       : y[1] + y[2] <= MaxIdxLen } } }

SDSelf0 == [figure_temporal_diagnosis |-> {}, figure_spatial_diagnosis |-> {},
            temporal_info |-> {}, spatial_info |-> {}]

SDInit ==
    /\ iface = "ScanDiagnosis"
    /\ inputs \in SDInputs
    /\ pc = "start"
    /\ locals = [bold_file |-> <<>>]
    /\ fs = {}
    /\ self = SDSelf0
    /\ exc = "none"
    /\ calls = <<>>
    /\ listed = {}

\* lines 119-128: prior_bold_idx first, then prior_confound_idx
SD_Coerce ==
    /\ iface = "ScanDiagnosis" /\ pc = "start"
    /\ LET b == CoerceList(inputs.prior_bold_idx, <<>>)
           c == CoerceList(inputs.prior_confound_idx, <<>>)
       IN IF b.err # "none"
          THEN pc' = "raised" /\ exc' = b.err /\ locals' = locals
          ELSE IF c.err # "none"
          THEN pc' = "raised" /\ exc' = c.err /\ locals' = locals
          ELSE /\ pc' = "process" /\ exc' = exc
               /\ locals' = [bold_file |-> inputs.file_dict.bold_file,
                             prior_bold_idx |-> b.vals, prior_confound_idx |-> c.vals]
    /\ UNCHANGED <<iface, inputs, fs, self, calls, listed>>

\* diagnosis_functions.process_data: files on different voxel grids are a
\* fatal GridMismatchError
process_data(file_dict, bold_idx, confound_idx) ==
    IF ~file_dict.compatible THEN [err |-> "GridMismatchError"]
    ELSE [err |-> "none",
          temporal_info |-> [bold_idx |-> bold_idx, confound_idx |-> confound_idx],
          spatial_info |-> [bold_idx |-> bold_idx]]

\* lines 130-134: the features, then the two figures in memory
SD_Process ==
    /\ iface = "ScanDiagnosis" /\ pc = "process"
    /\ LET r == process_data(inputs.file_dict, locals.prior_bold_idx,
                             locals.prior_confound_idx)
       IN /\ calls' = Append(calls, [fn |-> "process_data",
                                     prior_bold_idx |-> locals.prior_bold_idx,
                                     prior_confound_idx |-> locals.prior_confound_idx])
          /\ IF r.err # "none"
             THEN pc' = "raised" /\ exc' = r.err /\ locals' = locals
             ELSE /\ pc' = "save_temporal" /\ exc' = exc
                  /\ locals' = With(With(locals, "temporal_info", r.temporal_info),
                                    "spatial_info", r.spatial_info)
    /\ UNCHANGED <<iface, inputs, fs, self, listed>>

\* lines 137-138: the file name up to ".nii", in the working directory
figure_path(bold_file) == abspath(bold_file.stem)

\* line 139
SD_SaveTemporal ==
    /\ iface = "ScanDiagnosis" /\ pc = "save_temporal"
    /\ fs' = fs \cup {figure_path(locals.bold_file) \o "_temporal_diagnosis.png"}
    /\ pc' = "save_spatial"
    /\ UNCHANGED <<iface, inputs, locals, self, exc, calls, listed>>

\* line 140
SD_SaveSpatial ==
    /\ iface = "ScanDiagnosis" /\ pc = "save_spatial"
    /\ fs' = fs \cup {figure_path(locals.bold_file) \o "_spatial_diagnosis.png"}
    /\ pc' = "setattr"
    /\ UNCHANGED <<iface, inputs, locals, self, exc, calls, listed>>

\* lines 142-149
SD_SetOutputs ==
    /\ iface = "ScanDiagnosis" /\ pc = "setattr"
    /\ self' = [figure_temporal_diagnosis |->
                    {figure_path(locals.bold_file) \o "_temporal_diagnosis.png"},
                figure_spatial_diagnosis |->
                    {figure_path(locals.bold_file) \o "_spatial_diagnosis.png"},
                temporal_info |-> {locals.temporal_info},
                spatial_info |-> {locals.spatial_info}]
    /\ pc' = "returned"
    /\ UNCHANGED <<iface, inputs, locals, fs, exc, calls, listed>>

\* lines 151-155
SD_list_outputs(obj) ==
    IF \E a \in DOMAIN obj : obj[a] = {} THEN [err |-> "AttributeError"]
    ELSE [err |-> "none", outputs |-> [a \in DOMAIN obj |-> CHOOSE v \in obj[a] : TRUE]]

SD_ListOutputs ==
    /\ iface = "ScanDiagnosis" /\ pc = "returned"
    /\ listed' = {SD_list_outputs(self)}
    /\ pc' = "listed"
    /\ UNCHANGED <<iface, inputs, locals, fs, self, exc, calls>>

SDNext ==
    SD_Coerce \/ SD_Process \/ SD_SaveTemporal \/ SD_SaveSpatial \/ SD_SetOutputs
    \/ SD_ListOutputs

SpecSD == SDInit /\ [][SDNext]_vars

\* ------------------------------------------------ ScanDiagnosis: claims
\* the elements in the order int() meets them
AllIdx == inputs.prior_bold_idx \o inputs.prior_confound_idx
Spaces(chars) == \A k \in 1..Len(chars) : chars[k] = " "
RECURSIVE Join(_)
Join(chars) == IF chars = <<>> THEN "" ELSE Head(chars) \o Join(Tail(chars))
Abs(n) == IF n < 0 THEN -n ELSE n

\* text that is v in decimal: spaces, an optional sign, the digits of |v|
\* without a leading zero, spaces
TextOf(chars, v) ==
    \E a \in 0..Len(chars) : \E b \in a..Len(chars) :
        /\ Spaces(SubSeq(chars, 1, a)) /\ Spaces(SubSeq(chars, b + 1, Len(chars)))
        /\ LET mid == SubSeq(chars, a + 1, b) IN
           \/ v >= 0 /\ Join(mid) = ToString(v)
           \/ v >= 0 /\ Join(mid) = "+" \o ToString(v)
           \/ v <= 0 /\ Join(mid) = "-" \o ToString(Abs(v))

\* v is what element e denotes as an integer; a float is cut toward zero
Denotes(e, v) ==
    CASE e.t \in {"int", "bool"} -> v = e.n
      [] e.t = "float" -> /\ Abs(e.n) - 10 < 10 * Abs(v) /\ 10 * Abs(v) <= Abs(e.n)
                          /\ (v # 0 => (v > 0 <=> e.n > 0))
      [] e.t = "str" -> TextOf(e.s, v)
      [] OTHER -> FALSE
IdxRange == -1..12
Convertible(e) == \E v \in IdxRange : Denotes(e, v)
RefusedWith(e) ==
    CASE e.t \in {"str", "nan"} -> "ValueError"
      [] e.t = "inf" -> "OverflowError"
      [] e.t = "NoneType" -> "TypeError"
      [] OTHER -> "none"
FirstRefused == CHOOSE k \in 1..Len(AllIdx) :
                    /\ ~Convertible(AllIdx[k])
                    /\ \A j \in 1..(k - 1) : Convertible(AllIdx[j])
SDUntouched ==
    /\ calls = <<>> /\ fs = {}
    /\ \A a \in DOMAIN self : self[a] = {}

\* an integer, or text or a float that denotes one exactly
WellFormedIndex(e) ==
    \/ e.t \in {"int", "bool"}
    \/ e.t = "float" /\ e.n % 10 = 0
    \/ e.t = "str" /\ Convertible(e)

\* C10 as stated: any element that is not a well-formed integer ends the
\* run with ValueError before any processing or figure output
C10_ValueErrorOnly ==
    (iface = "ScanDiagnosis" /\ pc # "start"
     /\ \E k \in 1..Len(AllIdx) : ~WellFormedIndex(AllIdx[k]))
        => (pc = "raised" /\ exc = "ValueError" /\ SDUntouched)

\* C10 amended: both lists are coerced before anything else.  Ints, bools,
\* finite floats (cut toward zero) and integer text are converted to the
\* integer they denote; the first other element ends the run untouched,
\* with ValueError for text and NaN, OverflowError for an infinite float
\* and TypeError for None
C10_CoercionOutcomes ==
    (iface = "ScanDiagnosis" /\ pc # "start") =>
        IF \A k \in 1..Len(AllIdx) : Convertible(AllIdx[k])
        THEN /\ ~(pc = "raised" /\ calls = <<>>)
             /\ Len(locals.prior_bold_idx) = Len(inputs.prior_bold_idx)
             /\ Len(locals.prior_confound_idx) = Len(inputs.prior_confound_idx)
             /\ \A k \in 1..Len(AllIdx) :
                  Denotes(AllIdx[k], (locals.prior_bold_idx \o locals.prior_confound_idx)[k])
        ELSE /\ pc = "raised" /\ exc = RefusedWith(AllIdx[FirstRefused])
             /\ SDUntouched

\* a float index is cut to 0 without notice, then None ends the run with
\* TypeError before process_data is called
C10_Witness ==
    /\ iface = "ScanDiagnosis" /\ pc = "raised" /\ exc = "TypeError"
    /\ inputs.prior_bold_idx = <<PyVal("float", -5, <<>>)>>
    /\ inputs.prior_confound_idx = <<PyVal("NoneType", 0, <<>>)>>
    /\ SDUntouched

\* ------------------------------------------------------ DatasetDiagnosis
StdMaps == [Voxels -> StdVals]
Uniform(c) == [v \in Voxels |-> c]

\* the per-scan record ScanDiagnosis hands over; DR_BOLD, NPR_maps,
\* seed_list and prior_maps are kept as their number of maps
ScanRecords(np, nn, ns) ==
    { [temporal_std |-> s, predicted_std |-> Uniform(c),
       corrected_CR_std |-> Uniform(c), random_CR_std |-> Uniform(c),
       tDOF |-> t, DR_BOLD |-> np, NPR_maps |-> nn, seed_list |-> ns,
       prior_maps |-> np]
      : s \in StdMaps, c \in CRVals, t \in TdofVals }

\* the numbers of (prior, NPR, seed) maps of a dataset
Shapes == (1..MaxPriors) \X (0..MaxPriors) \X (0..MaxSeeds)

DDInputsOf(shapes) ==
    { [scan_data_list |-> Nest(scans, nested), seed_prior_maps |-> ns]
      : <<scans, nested, ns>> \in
        UNION { SeqsUpTo(ScanRecords(sh[1], sh[2], sh[3]), MaxScans) \X BOOLEAN \X {sh[3]}
                : sh \in shapes } }

MinSampleSize == 3

SampleTooSmall_Off(merged) == Len(merged) < MinSampleSize - 1
\* line 187: if len(merged) < 3
SampleTooSmall(merged) == Len(merged) < MinSampleSize

out_dir_normal == abspath("analysis_QC")
out_dir_corrected == out_dir_normal \o "/analysis_QC_corrected_CR"
non_zero_mask == abspath("non_zero_mask.nii.gz")

DDSelf0 == [analysis_QC |-> {}]
DDLocals0 == [merged |-> <<>>]

DDStart(shapes) ==
    /\ iface = "DatasetDiagnosis"
    /\ inputs \in DDInputsOf(shapes)
    /\ pc = "start"
    /\ locals = DDLocals0
    /\ fs = {}
    /\ self = DDSelf0
    /\ exc = "none"
    /\ calls = <<>>
    /\ listed = {}

DDInit == DDStart(Shapes)
\* datasets of one prior map, no NPR map and no seed
DDGateInit == DDStart({<<1, 0, 0>>})

\* lines 186-189: flatten, then refuse a sample smaller than 3
DD_Check ==
    /\ iface = "DatasetDiagnosis" /\ pc = "start"
    /\ LET merged == flatten_list(inputs.scan_data_list) IN
       /\ locals' = [merged |-> merged]
       /\ IF SampleTooSmall(merged)
          THEN pc' = "raised" /\ exc' = "ValueError"
          ELSE pc' = "makedirs" /\ exc' = exc
    /\ UNCHANGED <<iface, inputs, fs, self, calls, listed>>

\* lines 191-194: the two output directories
DD_MakeDirs ==
    /\ iface = "DatasetDiagnosis" /\ pc = "makedirs"
    /\ fs' = fs \cup {out_dir_normal, out_dir_corrected}
    /\ pc' = "collect"
    /\ UNCHANGED <<iface, inputs, locals, self, exc, calls, listed>>

Column(merged, key) == [k \in 1..Len(merged) |-> merged[k][key]]

\* lines 196-217: one Python list per feature, in scan order; scan_data
\* stays bound to the last scan after the loop
DD_Collect ==
    /\ iface = "DatasetDiagnosis" /\ pc = "collect"
    /\ LET m == locals.merged IN
       locals' = [merged |-> m,
                  std_maps |-> [type |-> "list", rows |-> Column(m, "temporal_std")],
                  CR_std_maps |-> Column(m, "predicted_std"),
                  corrected_CR_std_maps |-> Column(m, "corrected_CR_std"),
                  random_CR_std_maps |-> Column(m, "random_CR_std"),
                  DR_maps_list |-> Column(m, "DR_BOLD"),
                  NPR_maps_list |-> Column(m, "NPR_maps"),
                  seed_maps_list |-> Column(m, "seed_list"),
                  tdof_list |-> Column(m, "tDOF"),
                  scan_data |-> m[Len(m)]]
    /\ pc' = "stats"
    /\ UNCHANGED <<iface, inputs, fs, self, exc, calls, listed>>

\* np.array(l): the list as an ndarray
NpArray(l) == [type |-> "ndarray", rows |-> l.rows]

\* x == 0 as Python evaluates it: elementwise on an ndarray; a list never
\* equals an int, so the comparison is the plain bool False
PyEqZero(x) ==
    IF x.type = "ndarray"
    THEN [type |-> "ndarray",
          rows |-> [k \in 1..Len(x.rows) |-> [v \in Voxels |-> x.rows[k][v] = 0]]]
    ELSE [type |-> "bool", val |-> FALSE]

\* line 220: ((std_maps==0).sum(axis=0).astype(bool)==0), std_maps being
\* the Python list built by the loop of lines 209-217; a bool has no .sum
NonZeroVoxels(std_maps) ==
    LET eq == PyEqZero(std_maps) IN
    IF eq.type # "ndarray"
    THEN [err |-> "AttributeError"]
    ELSE [err |-> "none",
          mask |-> [v \in Voxels |-> ~(\E k \in 1..Len(eq.rows) : eq.rows[k][v])]]

\* lines 224-227: np.array(maps)[:, non_zero_voxels]
Restrict(rows, nz) ==
    [k \in 1..Len(rows) |-> [v \in {w \in Voxels : nz[w]} |-> rows[k][v]]]

\* line 235: not np.array(tdof_list).std()==0
TdofVaries(tdof_list) == Cardinality(Range(tdof_list)) > 1

\* lines 229-232: the zip of covariates, names and output directories
SetStacks(s) ==
    IF s = 1 THEN <<"std_maps", "CR_std_maps">>
    ELSE <<"std_maps", "corrected_CR_std_maps", "random_CR_std_maps">>
SetNames(s) ==
    IF s = 1 THEN <<"BOLD_SD", "CR_SD">>
    ELSE <<"BOLD_SD", "Corrected CR_SD", "Random CR_SD">>
SetDir_Same(s) == out_dir_normal
SetDir(s) == IF s = 1 THEN out_dir_normal ELSE out_dir_corrected

\* lines 235-238: the covariates and names of set s after the tDOF test
corr_variable(s, L, nz) ==
    LET base == [j \in 1..Len(SetStacks(s)) |->
                    [src |-> SetStacks(s)[j],
                     data |-> Restrict(IF SetStacks(s)[j] = "std_maps"
                                       THEN L.std_maps.rows
                                       ELSE L[SetStacks(s)[j]], nz)]]
    IN IF TdofVaries(L.tdof_list)
       THEN Append(base, [src |-> "tdof",
                          data |-> [k \in 1..Len(L.tdof_list) |-> <<L.tdof_list[k]>>]])
       ELSE base
variable_name(s, L) ==
    IF TdofVaries(L.tdof_list) THEN Append(SetNames(s), "tDOF") ELSE SetNames(s)

fig_path(dir, kind, i) == dir \o "/" \o kind \o ToString(i) \o "_QC_maps.png"
stats_path(dir, kind, i) == dir \o "/" \o kind \o ToString(i) \o "_QC_stats.csv"

\* one loop body: map i of a kind, nmaps being the maps each scan carries
Items(kind, n, nmaps, s) ==
    [j \in 1..n |-> [kind |-> kind, i |-> j - 1, inrange |-> j - 1 < nmaps, set |-> s]]

\* lines 240-274 for set s: DR for every prior, NPR for every prior when
\* the scans carry NPR maps, seeds for every seed prior when any is given
SetItems(s, L, nseed) ==
    LET num_priors == L.scan_data.prior_maps
        nDR == L.DR_maps_list[1]
        nNPR == L.NPR_maps_list[1]
        nSeedMaps == L.seed_maps_list[1]
    IN Items("DR", num_priors, nDR, s)
       \o (IF nNPR > 0 THEN Items("NPR", num_priors, nNPR, s) ELSE <<>>)
       \o (IF nseed > 0 THEN Items("seed_FC", nseed, nSeedMaps, s) ELSE <<>>)

\* lines 247-248 (and 255-256, 273-274): analysis_QC draws the figure at
\* fig_path, the one-row table goes next to it
QCCall(it, L, nz) ==
    [FC |-> <<it.kind, it.i>>,
     prior |-> <<IF it.kind = "seed_FC" THEN "seed_prior_maps" ELSE "prior_maps", it.i>>,
     corr_variable |-> corr_variable(it.set, L, nz),
     variable_name |-> variable_name(it.set, L),
     mask |-> non_zero_mask,
     set |-> it.set,
     fig_path |-> fig_path(SetDir(it.set), it.kind, it.i)]

RECURSIVE RunItems(_, _, _, _)
\* the loop bodies in order; an index past the maps of a scan is IndexError
RunItems(items, L, nz, acc) ==
    IF items = <<>> THEN acc
    ELSE LET it == Head(items) IN
         IF ~it.inrange THEN [acc EXCEPT !.exc = "IndexError"]
         ELSE RunItems(Tail(items), L, nz,
                [calls |-> Append(acc.calls, QCCall(it, L, nz)),
                 files |-> acc.files \cup {fig_path(SetDir(it.set), it.kind, it.i),
                                           stats_path(SetDir(it.set), it.kind, it.i)},
                 exc |-> "none"])

\* lines 229-274: set 1 then set 2
RunSets(L, nz, nseed) ==
    RunItems(SetItems(1, L, nseed) \o SetItems(2, L, nseed), L, nz,
             [calls |-> <<>>, files |-> {}, exc |-> "none"])

\* lines 219-278: the non-zero mask, then the statistics of both sets
DD_Stats ==
    /\ iface = "DatasetDiagnosis" /\ pc = "stats"
    /\ LET nz == NonZeroVoxels(locals.std_maps) IN
       IF nz.err # "none"
       THEN /\ pc' = "raised" /\ exc' = nz.err
            /\ UNCHANGED <<locals, fs, self, calls>>
       ELSE LET r == RunSets(locals, nz.mask, inputs.seed_prior_maps) IN
            /\ locals' = [merged |-> locals.merged, non_zero_voxels |-> nz.mask]
            /\ fs' = fs \cup {non_zero_mask} \cup r.files
            /\ calls' = r.calls
            /\ IF r.exc = "none"
               THEN /\ self' = [analysis_QC |-> {out_dir_normal}]
                    /\ pc' = "returned" /\ exc' = exc
               ELSE /\ self' = self
                    /\ pc' = "raised" /\ exc' = r.exc
    /\ UNCHANGED <<iface, inputs, listed>>

\* lines 280-283: getattr of an attribute never set is AttributeError
DD_list_outputs(obj) ==
    IF obj.analysis_QC = {} THEN [err |-> "AttributeError"]
    ELSE [err |-> "none", analysis_QC |-> CHOOSE d \in obj.analysis_QC : TRUE]

DDNext == DD_Check \/ DD_MakeDirs \/ DD_Collect \/ DD_Stats

SpecDD == DDInit /\ [][DDNext]_vars
SpecDDGate == DDGateInit /\ [][DDNext]_vars

\* --------------------------------------------- DatasetDiagnosis: claims
NScans == Len(flatten_list(inputs.scan_data_list))
NumPriorMaps == flatten_list(inputs.scan_data_list)[1].prior_maps
DDEnded == iface = "DatasetDiagnosis" /\ pc \in {"raised", "returned"}
NoArtifacts == fs = {} /\ calls = <<>> /\ self.analysis_QC = {}

C2_Recoverable ==
    (iface = "DatasetDiagnosis" /\ pc # "start" /\ NScans < MinSampleSize)
        => (exc = "none" /\ DD_list_outputs(self).err = "none")

\* C3: a run on at least 3 scans completes, and for every prior index and
\* both variable sets the DR figure and the DR statistics table exist
C3_ResultPerPrior ==
    (DDEnded /\ NScans >= MinSampleSize)
        => /\ pc = "returned"
           /\ \A s \in 1..2 : \A i \in 0..(NumPriorMaps - 1) :
                /\ fig_path(SetDir(s), "DR", i) \in fs
                /\ stats_path(SetDir(s), "DR", i) \in fs

\* C4: after a run on at least 3 scans the non-zero mask is written and
\* holds exactly the voxels where no scan's temporal STD is zero
C4_NonZeroIntersection ==
    (DDEnded /\ NScans >= MinSampleSize)
        => /\ non_zero_mask \in fs
           /\ "non_zero_voxels" \in DOMAIN locals
           /\ locals.non_zero_voxels =
                [v \in Voxels |-> \A k \in 1..Len(locals.merged) :
                                     locals.merged[k].temporal_std[v] # 0]

CallsOfSet(s) == {k \in 1..Len(calls) : calls[k].set = s}
TdofCount(cv) == Cardinality({j \in 1..Len(cv) : cv[j].src = "tdof"})
NameOf(src) ==
    CASE src = "std_maps" -> "BOLD_SD"
      [] src = "CR_std_maps" -> "CR_SD"
      [] src = "corrected_CR_std_maps" -> "Corrected CR_SD"
      [] src = "random_CR_std_maps" -> "Random CR_SD"
      [] src = "tdof" -> "tDOF"

\* C6: after a run on at least 3 scans, when tDOF varies both variable
\* sets have reached analysis_QC with tDOF as their last covariate; no
\* call carries tDOF when it does not vary, or more than once, and names
\* match covariates position by position
C6_TdofAppended ==
    (DDEnded /\ NScans >= MinSampleSize)
        => \A s \in 1..2 :
             /\ TdofVaries(Column(locals.merged, "tDOF"))
                  => \E k \in CallsOfSet(s) :
                        calls[k].corr_variable[Len(calls[k].corr_variable)].src = "tdof"
             /\ \A k \in CallsOfSet(s) :
                  LET cv == calls[k].corr_variable
                      nm == calls[k].variable_name
                  IN /\ (cv[Len(cv)].src = "tdof") <=> TdofVaries(Column(locals.merged, "tDOF"))
                     /\ TdofCount(cv) <= 1
                     /\ Len(nm) = Len(cv)
                     /\ \A j \in 1..Len(cv) : nm[j] = NameOf(cv[j].src)

WithoutTdof(cv) == SelectSeq(cv, LAMBDA c : c.src # "tdof")
Srcs(cv) == [j \in 1..Len(cv) |-> cv[j].src]

\* C7: a run on at least 3 scans tests set A = [signal STD, CR STD] under
\* analysis_QC, then set B = [signal STD, corrected STD, random STD] under
\* analysis_QC/analysis_QC_corrected_CR, and nothing else
C7_TwoSetsInOrder ==
    (DDEnded /\ NScans >= MinSampleSize)
        => /\ \A s \in 1..2 : CallsOfSet(s) # {}
           /\ \A k \in CallsOfSet(1) : \A m \in CallsOfSet(2) : k < m
           /\ \A k \in 1..Len(calls) :
                /\ calls[k].set \in 1..2
                /\ Srcs(WithoutTdof(calls[k].corr_variable)) = SetStacks(calls[k].set)
                /\ calls[k].fig_path =
                     fig_path(IF calls[k].set = 1 THEN out_dir_normal ELSE out_dir_corrected,
                              calls[k].FC[1], calls[k].FC[2])

MapKinds == {"DR", "NPR", "seed_FC"}

\* C11: after a ScanDiagnosis or DatasetDiagnosis run that failed, every
\* output item is whole or absent (both scan figures; a network's figure
\* with its statistics table), and neither an output directory nor the
\* non-zero mask of the run is left behind
C11_AllOrNothing ==
    pc = "raised" =>
        /\ iface = "ScanDiagnosis" =>
             LET stem == figure_path(inputs.file_dict.bold_file) IN
             (stem \o "_temporal_diagnosis.png" \in fs)
                 <=> (stem \o "_spatial_diagnosis.png" \in fs)
        /\ iface = "DatasetDiagnosis" =>
             /\ \A s \in 1..2 : \A kind \in MapKinds : \A i \in 0..MaxPriors :
                  (fig_path(SetDir(s), kind, i) \in fs)
                      <=> (stats_path(SetDir(s), kind, i) \in fs)
             /\ out_dir_normal \notin fs /\ out_dir_corrected \notin fs
             /\ non_zero_mask \notin fs

\* ------------------------------- DatasetDiagnosis: the result paths
MaxPathIdx == 11     \* largest network index formatted into a path

\* a result of a run: (variable set, map kind, network index)
ResultKeys == (1..2) \X MapKinds \X (0..MaxPathIdx)

\* lines 246, 248 (254, 256; 272, 274): the two paths of the result `key`
ResultPaths(key) ==
    [fig |-> fig_path(SetDir(key[1]), key[2], key[3]),
     stats |-> stats_path(SetDir(key[1]), key[2], key[3])]

PathsInit ==
    /\ iface = "DatasetDiagnosis"
    /\ inputs \in [a : ResultKeys, b : ResultKeys]
    /\ pc = "paths"
    /\ locals = <<>>
    /\ fs = {}
    /\ self = DDSelf0
    /\ exc = "none"
    /\ calls = <<>>
    /\ listed = {}

\* the f-strings of two loop bodies of one run
DD_FormatPaths ==
    /\ iface = "DatasetDiagnosis" /\ pc = "paths"
    /\ locals' = [a |-> ResultPaths(inputs.a), b |-> ResultPaths(inputs.b)]
    /\ pc' = "formatted"
    /\ UNCHANGED <<iface, inputs, fs, self, exc, calls, listed>>

SpecPaths == PathsInit /\ [][DD_FormatPaths]_vars

\* C12: the figure path and the statistics path of a result are fixed by
\* (variable set, map kind, network index), and two different results of a
\* run share no path: neither with each other, nor a figure with a table,
\* nor with the output directories or the non-zero mask
C12_PathsInjective ==
    (iface = "DatasetDiagnosis" /\ pc = "formatted") =>
        /\ inputs.a = inputs.b => locals.a = locals.b
        /\ inputs.a # inputs.b =>
             {locals.a.fig, locals.a.stats} \cap {locals.b.fig, locals.b.stats} = {}
        /\ locals.a.fig # locals.a.stats
        /\ {locals.a.fig, locals.a.stats}
               \cap {out_dir_normal, out_dir_corrected, non_zero_mask} = {}

\* the same map kind and index under the two variable sets
C12_Witness ==
    /\ iface = "DatasetDiagnosis" /\ pc = "formatted"
    /\ inputs.a = <<1, "DR", 1>> /\ inputs.b = <<2, "DR", 1>>
    /\ locals.a.fig = "/cwd/analysis_QC/DR1_QC_maps.png"
    /\ locals.b.fig = "/cwd/analysis_QC/analysis_QC_corrected_CR/DR1_QC_maps.png"

\* ------------------------------- DatasetDiagnosis: claims on the voxel set
\* std_maps as the loop of lines 209-217 leaves it
StdList == [type |-> "list",
            rows |-> Column(flatten_list(inputs.scan_data_list), "temporal_std")]
WithoutScan(l, k) ==
    [type |-> l.type, rows |-> SubSeq(l.rows, 1, k - 1) \o SubSeq(l.rows, k + 1, Len(l.rows))]
NzSet(r) == {v \in Voxels : r.mask[v]}

\* C13: the voxel set of line 220 is defined for every scan set; that of a
\* scan set with scan x is inside that of the set without x and holds no
\* voxel where x has zero STD, and computing it again gives the same set
C13_MonotoneIdempotent ==
    (DDEnded /\ NScans >= MinSampleSize) =>
        \A k \in 1..NScans :
            LET all == NonZeroVoxels(StdList)
                less == NonZeroVoxels(WithoutScan(StdList, k))
            IN /\ all.err = "none" /\ less.err = "none"
               /\ NzSet(all) \subseteq NzSet(less)
               /\ \A v \in Voxels : StdList.rows[k][v] = 0 => v \notin NzSet(all)
               /\ NonZeroVoxels(StdList) = all

\* C14: a run on at least 3 scans computes one voxel set from the signal
\* STD maps, writes it as the non-zero mask, and every STD stack of every
\* call to analysis_QC, in both variable sets, is cut to exactly that set
C14_OneVoxelSet ==
    (DDEnded /\ NScans >= MinSampleSize) =>
        /\ "non_zero_voxels" \in DOMAIN locals
        /\ locals.non_zero_voxels = NonZeroVoxels(NpArray(StdList)).mask
        /\ \A s \in 1..2 : CallsOfSet(s) # {}
        /\ \A k \in 1..Len(calls) :
             /\ calls[k].mask = non_zero_mask
             /\ \A j \in 1..Len(calls[k].corr_variable) :
                  LET c == calls[k].corr_variable[j] IN
                  c.src # "tdof" =>
                      \A r \in 1..Len(c.data) :
                          DOMAIN c.data[r] = {v \in Voxels : locals.non_zero_voxels[v]}

NumNPRMaps == flatten_list(inputs.scan_data_list)[1].NPR_maps
CallsOfKind(kind, s) == {k \in CallsOfSet(s) : calls[k].FC[1] = kind}
IndicesOf(S) == {calls[k].FC[2] : k \in S}

\* C15: a run on at least 3 scans never reads an NPR map past those a scan
\* carries; it has NPR results exactly when the scans carry an NPR map, and
\* then one per prior index in each variable set
C15_NPRPerPrior ==
    (DDEnded /\ NScans >= MinSampleSize) =>
        /\ exc # "IndexError"
        /\ \A s \in 1..2 :
             IF NumNPRMaps > 0
             THEN /\ IndicesOf(CallsOfKind("NPR", s)) = 0..(NumPriorMaps - 1)
                  /\ Cardinality(CallsOfKind("NPR", s)) = NumPriorMaps
                  /\ \A i \in IndicesOf(CallsOfKind("NPR", s)) : i < NumNPRMaps
             ELSE CallsOfKind("NPR", s) = {}

\* C16: with P network priors and S seed priors, each variable-set pass of
\* a run on at least 3 scans has exactly P DR results, each against the
\* network prior of its index, and exactly S seed results, each against
\* the seed prior of its index
C16_SeedsLeaveDRAlone ==
    (DDEnded /\ NScans >= MinSampleSize) =>
        \A s \in 1..2 :
            /\ Cardinality(CallsOfKind("DR", s)) = NumPriorMaps
            /\ IndicesOf(CallsOfKind("DR", s)) = 0..(NumPriorMaps - 1)
            /\ Cardinality(CallsOfKind("seed_FC", s)) = inputs.seed_prior_maps
            /\ IndicesOf(CallsOfKind("seed_FC", s)) = 0..(inputs.seed_prior_maps - 1)
            /\ \A k \in CallsOfSet(s) :
                 calls[k].prior =
                     <<IF calls[k].FC[1] = "seed_FC" THEN "seed_prior_maps"
                       ELSE "prior_maps", calls[k].FC[2]>>

\* ===================================================================== *
\* rabies/preprocess_bold_pkg/utils.py.  In the specifications below fs   *
\* is a set of files [dir, name, data]; a directory is the file of its    *
\* own dir with the empty name.  Image data are written as terms.         *
\* ===================================================================== *
File(dir, name, data) == [dir |-> dir, name |-> name, data |-> data]
Read(files, path) ==
    (CHOOSE f \in files : f.dir = path.dir /\ f.name = path.name).data
Write(files, path, data) ==
    {f \in files : ~(f.dir = path.dir /\ f.name = path.name)}
        \cup {File(path.dir, path.name, data)}
InCwd(name) == [dir |-> Cwd, name |-> name]

\* volumes [from, to) of the input series, np.median(..., axis=3), the
\* series antsMotionCorr writes, and an image with its data type set
Raw(from, to) == "raw[" \o ToString(from) \o ":" \o ToString(to) \o "]"
Median(series) == "median(" \o series \o ")"
MotCorr(series, ref) == "motcorr(" \o series \o " -> " \o ref \o ")"
AsType(image) == "astype(" \o image \o ")"
Min(a, b) == IF a < b THEN a ELSE b

\* ------------------------------------------------ EstimateReferenceImage
HeadVols == 50          \* line 186: dataobj[:, :, :, :50]
SubsetThreshold == 40   \* line 210: in_nii.shape[-1] > 40
SubsetFrom == 20        \* line 212: data_slice[:, :, :, 20:40]
SubsetTo == 40
MaxDummy == 2           \* dummy volumes _get_vols_to_discard reports

VolCounts == {1, SubsetThreshold, SubsetThreshold + 1, HeadVols + 1}

\* the input series, named <subject>_ses-<session>_run-<run>_bold.nii.gz
ERIInFile ==
    [dir |-> "/data", name |-> "sub-01_ses-1_run-1_bold.nii.gz",
     subject |-> "sub-01", session |-> <<"1">>, run |-> <<"1">>]

\* n_discard is what _get_vols_to_discard returns for the series;
\* data_type is whether os.environ holds rabies_data_type
ERIInputs ==
    { [in_file |-> ERIInFile, nvols |-> n, n_discard |-> d, detect_dummy |-> dd,
       data_type |-> e]
      : <<n, d, dd, e>> \in
          { y \in VolCounts \X (0..MaxDummy) \X BOOLEAN \X BOOLEAN : y[2] <= y[1] } }

ERISelf0 == [ref_image |-> {}, n_volumes_to_discard |-> {}]

ERIInit ==
    /\ iface = "EstimateReferenceImage"
    /\ inputs \in ERIInputs
    /\ pc = "start"
    /\ locals = <<>>
    /\ fs = {File(inputs.in_file.dir, inputs.in_file.name, Raw(0, inputs.nvols))}
    /\ self = ERISelf0
    /\ exc = "none"
    /\ calls = <<>>
    /\ listed = {}

\* lines 195-200: the first character of the session and of the run
out_ref_fname(in_file) ==
    InCwd(in_file.subject \o "_ses-" \o Head(in_file.session)
          \o "_run-" \o Head(in_file.run) \o "_bold_ref.nii.gz")

\* lines 185-200
ERI_Load ==
    /\ iface = "EstimateReferenceImage" /\ pc = "start"
    /\ locals' = [data_slice |-> <<0, Min(inputs.nvols, HeadVols)>>,
                  n_volumes_to_discard |-> inputs.n_discard,
                  out_ref_fname |-> out_ref_fname(inputs.in_file)]
    /\ pc' = "branch"
    /\ UNCHANGED <<iface, inputs, fs, self, exc, calls, listed>>

UseDummy_Always(n_volumes_to_discard, detect_dummy) == ~(n_volumes_to_discard = 0)
\* line 202: (not n_volumes_to_discard == 0) and self.inputs.detect_dummy
UseDummy(n_volumes_to_discard, detect_dummy) ==
    ~(n_volumes_to_discard = 0) /\ detect_dummy

\* data_slice[:, :, :, a:b] of the slice <<from, to>>
Slice(data_slice, a, b) ==
    <<Min(data_slice[1] + a, data_slice[2]), Min(data_slice[1] + b, data_slice[2])>>
RawOf(sl) == Raw(sl[1], sl[2])

\* lines 202-205: the median of the dummy volumes
ERI_Dummy ==
    /\ iface = "EstimateReferenceImage" /\ pc = "branch"
    /\ UseDummy(locals.n_volumes_to_discard, inputs.detect_dummy)
    /\ locals' = With(locals, "median_image_data",
                      Median(RawOf(Slice(locals.data_slice, 0,
                                         locals.n_volumes_to_discard))))
    /\ pc' = "save"
    /\ UNCHANGED <<iface, inputs, fs, self, exc, calls, listed>>

median_fname == InCwd("median.nii.gz")
tmp_median_fname == InCwd("tmp_median.nii.gz")

\* lines 206-221: the series to correct and its median, as files
ERI_Subset ==
    /\ iface = "EstimateReferenceImage" /\ pc = "branch"
    /\ ~UseDummy(locals.n_volumes_to_discard, inputs.detect_dummy)
    /\ IF inputs.nvols > SubsetThreshold
       THEN LET sub == RawOf(Slice(locals.data_slice, SubsetFrom, SubsetTo)) IN
            /\ locals' = With(locals, "slice_fname", InCwd("slice.nii.gz"))
            /\ fs' = Write(Write(fs, InCwd("slice.nii.gz"), sub),
                           median_fname, Median(sub))
       ELSE /\ locals' = With(locals, "slice_fname",
                              [dir |-> inputs.in_file.dir, name |-> inputs.in_file.name])
            /\ fs' = Write(fs, median_fname, Median(RawOf(locals.data_slice)))
    /\ pc' = "first"
    /\ UNCHANGED <<iface, inputs, self, exc, calls, listed>>

ants_mc_tmp == Cwd \o "/ants_mc_tmp"
first_ants_mc_tmp == Cwd \o "/first_ants_mc_tmp"
mc_corrected_bold == [dir |-> ants_mc_tmp, name |-> "motcorr.nii.gz"]

\* lines 285-288: mv ants_mc_tmp first_ants_mc_tmp
MoveTmp(files) ==
    IF ~(\E f \in files : f.dir = ants_mc_tmp) THEN [err |-> "ValueError", fs |-> files]
    ELSE [err |-> "none",
          fs |-> {f \in files : f.dir # ants_mc_tmp}
                 \cup {File(first_ants_mc_tmp, f.name, f.data)
                       : f \in {g \in files : g.dir = ants_mc_tmp}}]

\* antsMotionCorr(in_file, ref_file, second).run(), lines 281-302; ok is
\* whether the antsMotionCorr command exits with 0
antsMotionCorr(files, in_file, ref_file, second, ok) ==
    LET moved == IF second THEN MoveTmp(files) ELSE [err |-> "none", fs |-> files] IN
    IF moved.err # "none" THEN moved
    ELSE LET made == moved.fs \cup {File(ants_mc_tmp, "", "")} IN
         IF ~ok THEN [err |-> "ValueError", fs |-> made]
         ELSE [err |-> "none",
               fs |-> Write(made, mc_corrected_bold,
                            MotCorr(Read(files, in_file), Read(files, ref_file))),
               mc_corrected_bold |-> mc_corrected_bold]

\* what a pass was asked to do
PassCall(files, in_file, ref_file, second) ==
    [fn |-> "antsMotionCorr", in_file |-> in_file, ref_file |-> ref_file,
     second |-> second,
     in_data |-> Read(files, in_file), ref_data |-> Read(files, ref_file)]

\* lines 223-228: first pass against median.nii.gz, then tmp_median.nii.gz
ERI_FirstPass ==
    /\ iface = "EstimateReferenceImage" /\ pc = "first"
    /\ \E ok \in BOOLEAN :
         LET res == antsMotionCorr(fs, locals.slice_fname, median_fname, FALSE, ok) IN
         /\ calls' = Append(calls, PassCall(fs, locals.slice_fname, median_fname, FALSE))
         /\ IF res.err # "none"
            THEN /\ pc' = "raised" /\ exc' = res.err /\ fs' = res.fs
            ELSE /\ pc' = "second" /\ exc' = exc
                 /\ fs' = Write(res.fs, tmp_median_fname,
                                Median(Read(res.fs, res.mc_corrected_bold)))
    /\ UNCHANGED <<iface, inputs, locals, self, listed>>

\* lines 230-232: second pass against tmp_median.nii.gz
ERI_SecondPass ==
    /\ iface = "EstimateReferenceImage" /\ pc = "second"
    /\ \E ok \in BOOLEAN :
         LET res == antsMotionCorr(fs, locals.slice_fname, tmp_median_fname, TRUE, ok) IN
         /\ calls' = Append(calls, PassCall(fs, locals.slice_fname, tmp_median_fname, TRUE))
         /\ fs' = res.fs
         /\ IF res.err # "none"
            THEN /\ pc' = "raised" /\ exc' = res.err /\ locals' = locals
            ELSE /\ pc' = "save" /\ exc' = exc
                 /\ locals' = With(locals, "median_image_data",
                                   Median(Read(res.fs, res.mc_corrected_bold)))
    /\ UNCHANGED <<iface, inputs, self, listed>>

\* utils.resample_image with img_dim='origin': the image, its data type set
resample_image(nb_image) == AsType(nb_image)

\* lines 236-244: the reference image is written, the outputs are set
ERI_Save ==
    /\ iface = "EstimateReferenceImage" /\ pc = "save"
    /\ IF ~inputs.data_type
       THEN /\ pc' = "raised" /\ exc' = "KeyError"
            /\ UNCHANGED <<fs, self>>
       ELSE /\ fs' = Write(fs, locals.out_ref_fname,
                           resample_image(locals.median_image_data))
            /\ self' = [ref_image |-> {locals.out_ref_fname},
                        n_volumes_to_discard |-> {locals.n_volumes_to_discard}]
            /\ pc' = "returned" /\ exc' = exc
    /\ UNCHANGED <<iface, inputs, locals, calls, listed>>

\* lines 246-248
ERI_ListOutputs ==
    /\ iface = "EstimateReferenceImage" /\ pc = "returned"
    /\ listed' = {[ref_image |-> CHOOSE f \in self.ref_image : TRUE,
                   n_volumes_to_discard |-> CHOOSE n \in self.n_volumes_to_discard : TRUE]}
    /\ pc' = "listed"
    /\ UNCHANGED <<iface, inputs, locals, fs, self, exc, calls>>

ERINext ==
    ERI_Load \/ ERI_Dummy \/ ERI_Subset \/ ERI_FirstPass \/ ERI_SecondPass
    \/ ERI_Save \/ ERI_ListOutputs

SpecERI == ERIInit /\ [][ERINext]_vars

\* ---------------------------------------- EstimateReferenceImage: claims
DummyUsed == inputs.n_discard # 0 /\ inputs.detect_dummy
\* the series the passes correct: volumes 20..39 of a series of more than
\* 40 volumes, else the whole series
RawSubset ==
    IF inputs.nvols > SubsetThreshold THEN Raw(SubsetFrom, SubsetTo)
    ELSE Raw(0, inputs.nvols)

\* C17: with dummy volumes detected and detect_dummy set no motion
\* correction runs and the reference image is the median of the dummy
\* volumes; otherwise a run that returns has made exactly two passes over
\* the raw subset, in order: second=False against the median of the raw
\* subset, second=True against the median of the first pass's corrected
\* series, and the reference image is the median of the second pass's
\* corrected series
C17_TwoPassesInOrder ==
    iface = "EstimateReferenceImage" =>
        /\ DummyUsed => calls = <<>>
        /\ Len(calls) <= 2
        /\ \A k \in 1..Len(calls) : calls[k].second = (k = 2)
        /\ pc \in {"returned", "listed"} =>
             LET ref == Read(fs, CHOOSE f \in self.ref_image : TRUE) IN
             IF DummyUsed
             THEN ref = AsType(Median(Raw(0, inputs.n_discard)))
             ELSE /\ Len(calls) = 2
                  /\ calls[1].in_data = RawSubset /\ calls[2].in_data = RawSubset
                  /\ calls[1].ref_data = Median(RawSubset)
                  /\ calls[2].ref_data =
                         Median(MotCorr(RawSubset, calls[1].ref_data))
                  /\ ref = AsType(Median(MotCorr(RawSubset, calls[2].ref_data)))

\* dummy volumes detected but detect_dummy off: two passes, and the run
\* returned
C17_Witness ==
    /\ iface = "EstimateReferenceImage" /\ pc = "returned"
    /\ inputs.n_discard = 1 /\ ~inputs.detect_dummy
    /\ inputs.nvols > SubsetThreshold
    /\ Len(calls) = 2 /\ calls[2].second
    /\ calls[2].ref_data = "median(motcorr(raw[20:40] -> median(raw[20:40])))"

\* ---------------------------------------------------------- split_volumes
MaxDims == 5        \* dimensions of the input image
MaxExtent == 2      \* extent of the image along a dimension
TimeAxis == 3       \* line 398: in_nii.shape[3]
SeriesDims == 4     \* line 400: num_dimensions != 4

\* in_nii.shape of images of 3 to MaxDims dimensions
Shapes3Up == UNION { [1..n -> 1..MaxExtent] : n \in 3..MaxDims }
SVInputs == [shape : Shapes3Up, output_prefix : {"bold_", ""}]

\* the result slot: nothing returned yet
SVNoResult == [returned |-> FALSE, none |-> FALSE, volumes |-> <<>>, num_volumes |-> 0]

SVInit ==
    /\ iface = "split_volumes"
    /\ inputs \in SVInputs
    /\ pc = "start"
    /\ locals = [printed |-> <<>>, result |-> SVNoResult]
    /\ fs = {}
    /\ self = <<>>
    /\ exc = "none"
    /\ calls = <<>>
    /\ listed = {}

\* t[i] of a Python tuple, i counted from 0
PyIndex(t, i) ==
    IF i < Len(t) THEN [err |-> "none", val |-> t[i + 1]] ELSE [err |-> "IndexError"]

\* lines 396-398: the shape is indexed before the dimensions are tested
SV_Load ==
    /\ iface = "split_volumes" /\ pc = "start"
    /\ LET nv == PyIndex(inputs.shape, TimeAxis) IN
       IF nv.err # "none"
       THEN /\ pc' = "raised" /\ exc' = nv.err
            /\ locals' = With(locals, "num_dimensions", Len(inputs.shape))
       ELSE /\ pc' = "check" /\ exc' = exc
            /\ locals' = With(With(locals, "num_dimensions", Len(inputs.shape)),
                              "num_volumes", nv.val)
    /\ UNCHANGED <<iface, inputs, fs, self, calls, listed>>

\* line 400
NotSeries(num_dimensions) == num_dimensions # SeriesDims

\* lines 400-404
SV_CheckDims ==
    /\ iface = "split_volumes" /\ pc = "check"
    /\ IF NotSeries(locals.num_dimensions)
       THEN /\ locals' = [locals EXCEPT
                            !.printed = Append(@, "the input file must be of dimensions 4"),
                            !.result = [SVNoResult EXCEPT !.returned = TRUE, !.none = TRUE]]
            /\ pc' = "returned"
       ELSE /\ locals' = With(With(locals, "volumes", <<>>), "x", 0)
            /\ pc' = "loop"
    /\ UNCHANGED <<iface, inputs, fs, self, exc, calls, listed>>

\* line 407
vol_fname(output_prefix, x) == InCwd(output_prefix \o "vol" \o ToString(x) \o ".nii.gz")

\* lines 405-410: volume x is written and its name appended
SV_WriteVolume ==
    /\ iface = "split_volumes" /\ pc = "loop"
    /\ locals.x < locals.num_volumes
    /\ LET slice_fname == vol_fname(inputs.output_prefix, locals.x) IN
       /\ fs' = Write(fs, slice_fname, Raw(locals.x, locals.x + 1))
       /\ locals' = [locals EXCEPT !.volumes = Append(@, slice_fname), !.x = @ + 1]
    /\ UNCHANGED <<iface, inputs, pc, self, exc, calls, listed>>

\* line 412
SV_Return ==
    /\ iface = "split_volumes" /\ pc = "loop"
    /\ locals.x = locals.num_volumes
    /\ locals' = [locals EXCEPT
                    !.result = [returned |-> TRUE, none |-> FALSE,
                                volumes |-> locals.volumes,
                                num_volumes |-> locals.num_volumes]]
    /\ pc' = "returned"
    /\ UNCHANGED <<iface, inputs, fs, self, exc, calls, listed>>

SVNext == SV_Load \/ SV_CheckDims \/ SV_WriteVolume \/ SV_Return

SpecSV == SVInit /\ [][SVNext]_vars

\* ------------------------------------------------- split_volumes: claims
SVEnded == iface = "split_volumes" /\ pc \in {"raised", "returned"}

\* C18: on an input that is not 4-dimensional nothing is raised and no
\* volume file is written, and the call ends having reported that the
\* input must be 4-dimensional and returning None; on a 4-dimensional
\* input it returns the volume file names in index order and their count
C18_SplitOutcomes ==
    iface = "split_volumes" =>
        IF Len(inputs.shape) # SeriesDims
        THEN /\ exc = "none" /\ fs = {}
             /\ SVEnded => /\ pc = "returned" /\ locals.result.none
                           /\ locals.printed = <<"the input file must be of dimensions 4">>
        ELSE SVEnded =>
                /\ pc = "returned" /\ ~locals.result.none
                /\ locals.result.num_volumes = inputs.shape[SeriesDims]
                /\ locals.result.volumes =
                     [k \in 1..inputs.shape[SeriesDims] |->
                         vol_fname(inputs.output_prefix, k - 1)]
                /\ \A k \in 1..Len(locals.result.volumes) :
                     \E f \in fs : /\ f.dir = locals.result.volumes[k].dir
                                   /\ f.name = locals.result.volumes[k].name

\* --------------------------------------------------------- BIDSDataGraber
MaxMatches == 2     \* files of the BIDS directory a selection can match
MaxSession == 2     \* session and run numbers

PyStr(s) == [t |-> "str", v |-> s]
PyIntVal(n) == [t |-> "int", v |-> ToString(n)]

RECURSIVE PyConcat(_, _)
\* acc + p1 + p2 + ..., left to right: str + str concatenates, str + int
\* is TypeError
PyConcat(acc, parts) ==
    IF parts = <<>> THEN [err |-> "none", val |-> acc]
    ELSE IF Head(parts).t # "str" THEN [err |-> "TypeError"]
    ELSE PyConcat(acc \o Head(parts).v, Tail(parts))

\* lines 67 and 69: datatype+'_'+subject_id+'_'+session+'_'+run, session
\* and run being traits.Int
SpecName(inp) ==
    PyConcat("", <<PyStr(inp.datatype), PyStr("_"), PyStr(inp.subject_id), PyStr("_"),
                   PyIntVal(inp.session), PyStr("_"), PyIntVal(inp.run)>>)

Exts == {".nii", ".nii.gz"}
\* the k-th file the layout returns for the selection
Matched(exts) ==
    [k \in 1..Len(exts) |-> [dir |-> "/bids", stem |-> "scan" \o ToString(k),
                             ext |-> exts[k]]]

\* matches: what layout.get returns for the inputs, in order
BGInputs ==
    { [datatype |-> d, subject_id |-> "01", session |-> se, run |-> r,
       matches |-> Matched(x)]
      : <<d, se, r, x>> \in
          {"func", "anat", "dwi"} \X (1..MaxSession) \X (1..MaxSession)
          \X SeqsUpTo(Exts, MaxMatches) }

BGSelf0 == [out_file |-> {}]

BGInit ==
    /\ iface = "BIDSDataGraber"
    /\ inputs \in BGInputs
    /\ pc = "start"
    /\ locals = <<>>
    /\ fs = {File(inputs.matches[k].dir, inputs.matches[k].stem \o inputs.matches[k].ext,
                  "raw") : k \in 1..Len(inputs.matches)}
    /\ self = BGSelf0
    /\ exc = "none"
    /\ calls = <<>>
    /\ listed = {}

\* lines 56 and 60
KnownDatatype(datatype) == datatype \in {"func", "anat"}

\* lines 56-67, the body of the try: the exception it raises, or the file
TrySelect(inp) ==
    IF ~KnownDatatype(inp.datatype) THEN [err |-> "ValueError"]
    ELSE IF Len(inp.matches) = 0 THEN [err |-> "IndexError"]
    ELSE IF Len(inp.matches) > 1
         THEN [err |-> IF SpecName(inp).err # "none" THEN SpecName(inp).err
                       ELSE "ValueError"]
    ELSE [err |-> "none", file |-> inp.matches[1]]

\* lines 68-69: whatever the try raised, the handler builds the message of
\* a ValueError; an exception in building it is the one that leaves
ExceptAll(inp) ==
    IF SpecName(inp).err # "none" THEN SpecName(inp).err ELSE "ValueError"

\* lines 54-69
BG_Select ==
    /\ iface = "BIDSDataGraber" /\ pc = "start"
    /\ LET r == TrySelect(inputs) IN
       IF r.err # "none"
       THEN /\ pc' = "raised" /\ exc' = ExceptAll(inputs)
            /\ locals' = locals
       ELSE /\ pc' = "compress" /\ exc' = exc
            /\ locals' = [file |-> r.file]
    /\ UNCHANGED <<iface, inputs, fs, self, calls, listed>>

\* lines 72-77: gzip of a file whose name does not hold '.nii.gz'; ok is
\* whether the gzip command exits with 0
BG_Compress ==
    /\ iface = "BIDSDataGraber" /\ pc = "compress"
    /\ IF locals.file.ext = ".nii.gz"
       THEN /\ pc' = "setattr"
            /\ UNCHANGED <<locals, fs, exc>>
       ELSE \E ok \in BOOLEAN :
              IF ~ok
              THEN /\ pc' = "raised" /\ exc' = "ValueError"
                   /\ UNCHANGED <<locals, fs>>
              ELSE LET f == locals.file IN
                   /\ fs' = {g \in fs : g.name # f.stem \o f.ext}
                            \cup {File(f.dir, f.stem \o f.ext \o ".gz", "gzip(raw)")}
                   /\ locals' = [file |-> [f EXCEPT !.ext = @ \o ".gz"]]
                   /\ pc' = "setattr" /\ exc' = exc
    /\ UNCHANGED <<iface, inputs, self, calls, listed>>

\* lines 79-81
BG_SetOutput ==
    /\ iface = "BIDSDataGraber" /\ pc = "setattr"
    /\ self' = [out_file |-> {locals.file}]
    /\ pc' = "returned"
    /\ UNCHANGED <<iface, inputs, locals, fs, exc, calls, listed>>

\* lines 83-84
BG_ListOutputs ==
    /\ iface = "BIDSDataGraber" /\ pc = "returned"
    /\ listed' = {[out_file |-> CHOOSE f \in self.out_file : TRUE]}
    /\ pc' = "listed"
    /\ UNCHANGED <<iface, inputs, locals, fs, self, exc, calls>>

BGNext == BG_Select \/ BG_Compress \/ BG_SetOutput \/ BG_ListOutputs

SpecBG == BGInit /\ [][BGNext]_vars

\* ------------------------------------------------ BIDSDataGraber: claims
SelectionFails ==
    \/ inputs.datatype \notin {"func", "anat"}
    \/ Len(inputs.matches) # 1

\* C19: a selection with a datatype other than 'func' and 'anat', with no
\* matching file or with more than one ends the run with ValueError, and
\* out_file is set only when exactly one file matches
C19_ValueErrorOnFailure ==
    (iface = "BIDSDataGraber" /\ pc # "start") =>
        /\ SelectionFails => (pc = "raised" /\ exc = "ValueError")
        /\ self.out_file # {} => ~SelectionFails
====
